---- MODULE Spec2Model ----
(***************************************************************************)
(* Gramedia display-competition form (src/app.py).                         *)
(*                                                                         *)
(* The shared state is the Google spreadsheet (main sheet, store sheet,    *)
(* employee sheet) and the storage bucket.  Every browser session runs the *)
(* Streamlit script: it builds its GramediaDisplayHandler once             *)
(* (_setup_connections, _ensure_sheet_structure), then on every run loads  *)
(* the catalogs, renders the form and, when the form was submitted,        *)
(* validates, adds new catalog names, uploads the photos and appends the   *)
(* row.  One step of the model is one call of the sheets/storage API       *)
(* together with the local code around it; sessions interleave between     *)
(* calls.                                                                  *)
(*                                                                         *)
(* Text is a tuple of one-character strings ("" is <<>>), so that strip()  *)
(* and sorted() are computed.  Python's None is the value None below.      *)
(***************************************************************************)
EXTENDS Integers, Sequences, FiniteSets, TLC

Sessions == {"s1", "s2"}

\* Submissions handled over all sessions in one behaviour.
MaxSubmissions == 2

SubNames == <<"1", "2", "3", "4">>

None == <<"None">>

Truthy(x) == x # None /\ x # <<>>

Whitespace == {" "}

\* Code-point order of the characters and fixed words that occur in cells.
Alphabet == <<" ", "Employee_Name", "Store_Name", "a", "b">>

Rank(c) == CHOOSE i \in 1..Len(Alphabet) : Alphabet[i] = c

RECURSIVE lstrip(_)
lstrip(t) == IF t # <<>> /\ Head(t) \in Whitespace THEN lstrip(Tail(t)) ELSE t

RECURSIVE rstrip(_)
rstrip(t) ==
    IF t # <<>> /\ t[Len(t)] \in Whitespace
    THEN rstrip(SubSeq(t, 1, Len(t) - 1))
    ELSE t

strip(t) == rstrip(lstrip(t))

RECURSIVE StrLess(_, _)
StrLess(x, y) ==
    IF y = <<>> THEN FALSE
    ELSE IF x = <<>> THEN TRUE
    ELSE IF Head(x) = Head(y) THEN StrLess(Tail(x), Tail(y))
    ELSE Rank(Head(x)) < Rank(Head(y))

StrLeq(x, y) == x = y \/ StrLess(x, y)

RECURSIVE Insert(_, _)
Insert(x, l) ==
    IF l = <<>> THEN <<x>>
    ELSE IF StrLess(x, Head(l)) THEN <<x>> \o l
    ELSE <<Head(l)>> \o Insert(x, Tail(l))

RECURSIVE sorted(_)
sorted(l) == IF l = <<>> THEN <<>> ELSE Insert(Head(l), sorted(Tail(l)))

Range(l) == {l[i] : i \in 1..Len(l)}

\* pandas Series.unique(): first occurrences, in order of appearance.
RECURSIVE uniqueFrom(_, _)
uniqueFrom(l, seen) ==
    IF l = <<>> THEN <<>>
    ELSE IF Head(l) \in seen THEN uniqueFrom(Tail(l), seen)
    ELSE <<Head(l)>> \o uniqueFrom(Tail(l), seen \cup {Head(l)})

unique(l) == uniqueFrom(l, {})

dropna(l) == SelectSeq(l, LAMBDA v : v # None)

-----------------------------------------------------------------------------
(* The spreadsheet.  A sheet is the sequence of its non-blank rows; a row  *)
(* is a record column -> cell.                                             *)

StoreColumns == {"Store_Name"}
EmployeeColumns == {"Employee_Name"}
MainColumns ==
    {"Store_Name", "Employee_Name", "Date", "Education_Photo_URL", "Poster_Photo_URL",
     "Participation_Competition", "Display_Competition_Photo_URL",
     "Non_Participation_Reason", "Timestamp", "Status"}

HeaderRow(columns) == [c \in columns |-> <<c>>]

main_expected_headers == HeaderRow(MainColumns)
employee_expected_headers == HeaderRow(EmployeeColumns)
store_expected_headers == HeaderRow(StoreColumns)

\* gspread writes None as a blank cell.
CellOf(v) == IF v = None THEN <<>> ELSE v

any(row) == \E c \in DOMAIN row : row[c] # <<>>

append_row_if_absent(sheet, row) ==
    IF row \in Range(sheet) THEN sheet ELSE Append(sheet, row)

\* Worksheet.append_row(values)
append_row(sheet, row) == Append(sheet, row)

\* Worksheet.row_values(1)
row_values1(sheet) == IF sheet = <<>> THEN <<>> ELSE <<sheet[1]>>

\* Worksheet.get_all_records(): row 1 gives the keys of the records.
get_all_records(sheet) ==
    IF Len(sheet) <= 1 THEN <<>>
    ELSE [i \in 1..(Len(sheet) - 1) |-> [head |-> sheet[1], row |-> sheet[i + 1]]]

HasKey(record, key) == \E c \in DOMAIN record.head : record.head[c] = <<key>>

\* record.get(key, '')
Get(record, key) ==
    IF HasKey(record, key)
    THEN record.row[CHOOSE c \in DOMAIN record.head : record.head[c] = <<key>>]
    ELSE <<>>

Column(records, key) == [i \in 1..Len(records) |-> Get(records[i], key)]

\* One catalog of get_stores_and_employees.
CatalogNamesNoUnique(sheet, key) ==
    LET records == get_all_records(sheet)
    IN IF records # <<>> /\ HasKey(records[1], key)
       THEN sorted(SelectSeq(dropna(Column(records, key)), LAMBDA n : n # <<>>))
       ELSE <<>>

CatalogNames(sheet, key) ==
    LET records == get_all_records(sheet)
    IN IF records # <<>> /\ HasKey(records[1], key)
       THEN sorted(SelectSeq(unique(dropna(Column(records, key))), LAMBDA n : n # <<>>))
       ELSE <<>>

\* The existence test of add_store_to_sheet / add_employee_to_sheet.
NameRecorded(records, key, name) ==
    \E i \in 1..Len(records) : strip(Get(records[i], key)) = strip(name)

-----------------------------------------------------------------------------
(* The form.                                                               *)

SelectStore == <<"Select Store...">>
NewStore == <<"+ New Store">>
SelectEmployee == <<"Select Employee...">>
NewEmployee == <<"+ New Employee">>

Image == <<"image">>
Corrupt == <<"corrupt">>

store_name(f) ==
    IF f.store_selection = NewStore THEN f.new_store
    ELSE IF f.store_selection # <<>> /\ f.store_selection # SelectStore
         THEN f.store_selection
         ELSE <<>>

employee_name(f) ==
    IF f.employee_selection = NewEmployee THEN f.new_employee
    ELSE IF f.employee_selection # <<>> /\ f.employee_selection # SelectEmployee
         THEN f.employee_selection
         ELSE <<>>

Check(failed, message) == IF failed THEN <<message>> ELSE <<>>

ValidationFirstOnly(f) ==
    LET all ==
            Check(strip(store_name(f)) = <<>>, "Store name is required")
            \o Check(strip(employee_name(f)) = <<>>, "Employee name is required")
            \o Check(f.education_photo = None, "Education photo is required")
            \o Check(f.poster_photo = None, "Poster photo is required")
            \o Check(f.participation = "Select...", "Please select participation status")
            \o Check(f.participation = "Yes" /\ f.display_competition_photo = None,
                     "Display competition photo is required when participating")
            \o Check(f.participation = "No" /\ strip(f.non_participation_reason) = <<>>,
                     "Reason is required when not participating")
    IN IF all = <<>> THEN <<>> ELSE <<Head(all)>>

Validation(f) ==
    Check(strip(store_name(f)) = <<>>, "Store name is required")
    \o Check(strip(employee_name(f)) = <<>>, "Employee name is required")
    \o Check(f.education_photo = None, "Education photo is required")
    \o Check(f.poster_photo = None, "Poster photo is required")
    \o Check(f.participation = "Select...", "Please select participation status")
    \o Check(f.participation = "Yes" /\ f.display_competition_photo = None,
             "Display competition photo is required when participating")
    \o Check(f.participation = "No" /\ strip(f.non_participation_reason) = <<>>,
             "Reason is required when not participating")

BlankForm ==
    [store_selection |-> SelectStore, new_store |-> <<>>,
     employee_selection |-> SelectEmployee, new_employee |-> <<>>,
     education_photo |-> None, poster_photo |-> None,
     participation |-> "Select...", display_competition_photo |-> None,
     non_participation_reason |-> <<>>]

\* The values the widgets of lines 601-690 can hold in one run, over the
\* given typed texts and files: the text inputs and the display uploader
\* exist only under the selection that shows them.
StoreChoices(stores, texts) ==
    {[selection |-> x, new |-> <<>>] : x \in {SelectStore} \cup Range(stores)}
    \cup {[selection |-> NewStore, new |-> t] : t \in texts}

EmployeeChoices(employees, texts) ==
    {[selection |-> x, new |-> <<>>] : x \in {SelectEmployee} \cup Range(employees)}
    \cup {[selection |-> NewEmployee, new |-> t] : t \in texts}

ParticipationChoices(texts, files) ==
    {[participation |-> "Select...", photo |-> None, reason |-> <<>>]}
    \cup {[participation |-> "Yes", photo |-> x, reason |-> <<>>] : x \in {None} \cup files}
    \cup {[participation |-> "No", photo |-> None, reason |-> t] : t \in {<<>>} \cup texts}

FormsOver(storeChoices, employeeChoices, educationFiles, posterFiles, participations) ==
    {[store_selection |-> st.selection, new_store |-> st.new,
      employee_selection |-> em.selection, new_employee |-> em.new,
      education_photo |-> ed, poster_photo |-> po,
      participation |-> pa.participation,
      display_competition_photo |-> pa.photo,
      non_participation_reason |-> pa.reason] :
        st \in storeChoices, em \in employeeChoices,
        ed \in educationFiles, po \in posterFiles, pa \in participations}

FormStates(stores, employees, texts, files) ==
    FormsOver(StoreChoices(stores, texts), EmployeeChoices(employees, texts),
              {None} \cup files, {None} \cup files, ParticipationChoices(texts, files))

-----------------------------------------------------------------------------
VARIABLES
    main_worksheet,      \* Sheet1 of the spreadsheet
    store_worksheet,     \* "Store Sheet"
    employee_worksheet,  \* "Employee Sheet"
    bucket,              \* objects of the storage bucket
    nsub,                \* submissions started so far
    session              \* per session: st.session_state and the script's locals

vars == <<main_worksheet, store_worksheet, employee_worksheet, bucket, nsub, session>>

NewSession ==
    [pc |-> "new", sheets |-> FALSE, storage |-> FALSE, ens |-> "main",
     stores |-> <<>>, employees |-> <<>>, form |-> BlankForm, errors |-> <<>>,
     education_url |-> <<>>, poster_url |-> <<>>, display_url |-> <<>>,
     sub |-> "0", ops |-> <<>>]

Init ==
    /\ main_worksheet = <<>>
    /\ store_worksheet = <<>>
    /\ employee_worksheet = <<>>
    /\ bucket = {}
    /\ nsub = 0
    /\ session = [s \in Sessions |-> NewSession]

Set(s, r) == session' = [session EXCEPT ![s] = r]

Sheets == <<main_worksheet, store_worksheet, employee_worksheet>>
Stores == <<main_worksheet, store_worksheet, employee_worksheet, bucket>>


-----------------------------------------------------------------------------
(* GramediaDisplayHandler.__init__ / _setup_connections                    *)

SheetOf(k) ==
    CASE k = "main" -> main_worksheet
      [] k = "employee" -> employee_worksheet
      [] k = "store" -> store_worksheet

ExpectedHeaders(k) ==
    CASE k = "main" -> main_expected_headers
      [] k = "employee" -> employee_expected_headers
      [] k = "store" -> store_expected_headers

SetSheet(k, v) ==
    /\ main_worksheet' = IF k = "main" THEN v ELSE main_worksheet
    /\ employee_worksheet' = IF k = "employee" THEN v ELSE employee_worksheet
    /\ store_worksheet' = IF k = "store" THEN v ELSE store_worksheet

\* _ensure_sheet_structure goes on to the next sheet; after the last one
\* _setup_connections sets connection_status["sheets"].
AfterEnsure(r) ==
    CASE r.ens = "main" -> [r EXCEPT !.pc = "ensure_row_values", !.ens = "employee"]
      [] r.ens = "employee" -> [r EXCEPT !.pc = "ensure_row_values", !.ens = "store"]
      [] r.ens = "store" -> [r EXCEPT !.pc = "setup_storage", !.sheets = TRUE]

\* "Only add headers if sheet is empty"
SheetLooksEmpty(all_values) ==
    all_values = <<>> \/ (Len(all_values) = 1 /\ ~any(all_values[1]))

\* Configuration lookup and the connection to the spreadsheet.
SetupConnections(s) ==
    /\ session[s].pc = "new"
    /\ \E outcome \in {"no_config", "sheets_error", "connected"} :
          Set(s, CASE outcome = "no_config" -> [session[s] EXCEPT !.pc = "stopped"]
                   [] outcome = "sheets_error" -> [session[s] EXCEPT !.pc = "setup_storage"]
                   [] outcome = "connected" ->
                        [session[s] EXCEPT !.pc = "ensure_row_values", !.ens = "main"])
    /\ UNCHANGED <<Stores, nsub>>

EnsureRowValues(s, RI) ==
    /\ session[s].pc = "ensure_row_values"
    /\ \E raised \in RI :
          LET current_headers ==
                  IF raised THEN <<>> ELSE row_values1(SheetOf(session[s].ens))
          IN Set(s, IF current_headers = <<>>
                    THEN [session[s] EXCEPT !.pc = "ensure_get_all_values"]
                    ELSE AfterEnsure(session[s]))
    /\ UNCHANGED <<Stores, nsub>>

EnsureGetAllValues(s, RI) ==
    /\ session[s].pc = "ensure_get_all_values"
    /\ \E raised \in RI :
          Set(s, IF ~raised /\ SheetLooksEmpty(SheetOf(session[s].ens))
                 THEN [session[s] EXCEPT !.pc = "ensure_clear"]
                 ELSE AfterEnsure(session[s]))
    /\ UNCHANGED <<Stores, nsub>>

EnsureClear(s, RI) ==
    /\ session[s].pc = "ensure_clear"
    /\ \E raised \in RI :
          IF raised
          THEN /\ Set(s, AfterEnsure(session[s]))
               /\ UNCHANGED Sheets
          ELSE /\ SetSheet(session[s].ens, <<>>)
               /\ Set(s, [session[s] EXCEPT !.pc = "ensure_append_row"])
    /\ UNCHANGED <<bucket, nsub>>

EnsureAppendRow(s, RI) ==
    /\ session[s].pc = "ensure_append_row"
    /\ \E raised \in RI :
          IF raised
          THEN UNCHANGED Sheets
          ELSE SetSheet(session[s].ens,
                        append_row(SheetOf(session[s].ens), ExpectedHeaders(session[s].ens)))
    /\ Set(s, AfterEnsure(session[s]))
    /\ UNCHANGED <<bucket, nsub>>

StatusCheckSheetsOnly(sheets, storage) == IF sheets THEN "load_stores" ELSE "stopped"

\* main's check of connection_status: st.stop() unless both are set.
StatusCheck(sheets, storage) == IF sheets /\ storage THEN "load_stores" ELSE "stopped"

\* The storage client, then main's check of connection_status.
SetupStorage(s) ==
    /\ session[s].pc = "setup_storage"
    /\ \E connected \in BOOLEAN :
          Set(s, [session[s] EXCEPT
                    !.storage = connected,
                    !.pc = StatusCheck(session[s].sheets, connected)])
    /\ UNCHANGED <<Stores, nsub>>

-----------------------------------------------------------------------------
(* One run of main(): catalogs, form, validation.                          *)

LoadStores(s, R) ==
    /\ session[s].pc = "load_stores"
    /\ \E raised \in R :
          Set(s, IF raised
                 THEN [session[s] EXCEPT !.stores = <<>>, !.employees = <<>>,
                                         !.pc = "form"]
                 ELSE [session[s] EXCEPT
                         !.stores = CatalogNames(store_worksheet, "Store_Name"),
                         !.pc = "load_employees"])
    /\ UNCHANGED <<Stores, nsub>>

LoadEmployees(s, R) ==
    /\ session[s].pc = "load_employees"
    /\ \E raised \in R :
          Set(s, IF raised
                 THEN [session[s] EXCEPT !.stores = <<>>, !.employees = <<>>,
                                         !.pc = "form"]
                 ELSE [session[s] EXCEPT
                         !.employees = CatalogNames(employee_worksheet, "Employee_Name"),
                         !.pc = "form"])
    /\ UNCHANGED <<Stores, nsub>>

\* The user presses "Submit Entry" with the widgets holding f.
Submit(s, f) ==
    /\ session[s].pc = "form"
    /\ nsub < MaxSubmissions
    /\ nsub' = nsub + 1
    /\ Set(s, [session[s] EXCEPT !.form = f, !.sub = SubNames[nsub + 1],
                                 !.stores = <<>>, !.employees = <<>>,
                                 !.pc = "validating"])
    /\ UNCHANGED Stores

AfterAddStore(f) ==
    IF f.employee_selection = NewEmployee THEN "add_employee" ELSE "upload_education"

AfterValidation(f) ==
    IF f.store_selection = NewStore THEN "add_store" ELSE AfterAddStore(f)

ProceedAlways(errors) == TRUE

\* "if errors: ... else: process submission"
Proceed(errors) == errors = <<>>

Validate(s) ==
    /\ session[s].pc = "validating"
    /\ LET errors == Validation(session[s].form)
       IN Set(s, [session[s] EXCEPT
                    !.errors = errors,
                    !.pc = IF Proceed(errors)
                           THEN AfterValidation(session[s].form) ELSE "invalid"])
    /\ UNCHANGED <<Stores, nsub>>


-----------------------------------------------------------------------------
(* Processing a validated submission (main, lines 722-821).  session.ops is *)
(* the record of the handler calls made for the current submission, in     *)
(* call order, with an entry for every catalog row a call appended.        *)

Did(r, op) == [r EXCEPT !.ops = Append(@, op)]

CatalogSheet(c) == IF c = "store" THEN store_worksheet ELSE employee_worksheet
CatalogKey(c) == IF c = "store" THEN "Store_Name" ELSE "Employee_Name"
CatalogRow(c, name) == [col \in {CatalogKey(c)} |-> name]
TypedName(c, f) == IF c = "store" THEN store_name(f) ELSE employee_name(f)
AfterAdd(c, f) == IF c = "store" THEN AfterAddStore(f) ELSE "upload_education"

AlwaysAppend(records, key, name) == FALSE

\* add_*_to_sheet returns True without appending when the name is recorded.
AlreadyListed(records, key, name) == NameRecorded(records, key, name)

AddFailedContinues(r) == [r EXCEPT !.pc = "upload_education"]

\* "if not success: st.error(...); st.stop()"
AddFailed(r) == [r EXCEPT !.pc = "add_failed"]

\* add_store_to_sheet / add_employee_to_sheet up to and including the
\* existence loop over get_all_records().
AddRead(s, c, R) ==
    /\ session[s].pc = "add_" \o c
    /\ \E raised \in R :
          LET r == Did(session[s], "add_" \o c)
              name == TypedName(c, r.form)
          IN Set(s, IF raised
                    THEN AddFailed(r)
                    ELSE IF AlreadyListed(get_all_records(CatalogSheet(c)),
                                          CatalogKey(c), name)
                         THEN [r EXCEPT !.pc = AfterAdd(c, r.form)]
                         ELSE [r EXCEPT !.pc = "append_" \o c])
    /\ UNCHANGED <<Stores, nsub>>

\* ... and its append_row([name.strip()]).
AddAppend(s, c, R) ==
    /\ session[s].pc = "append_" \o c
    /\ \E raised \in R :
          LET r == session[s]
              name == TypedName(c, r.form)
          IN IF raised
             THEN /\ Set(s, AddFailed(r))
                  /\ UNCHANGED Sheets
             ELSE /\ Set(s, [Did(r, "appended_" \o c) EXCEPT !.pc = AfterAdd(c, r.form)])
                  /\ SetSheet(c, append_row(CatalogSheet(c), CatalogRow(c, strip(name))))
    /\ UNCHANGED <<bucket, nsub>>

UploadOutcomes == {"failed", "public", "private"}

PublicUrl(sub, img_type) == <<"https://storage.googleapis.com", sub, img_type>>

\* upload_image: the returned reference and the objects it leaves in the bucket.
\* message is what the call shows on the page (st.success, st.warning,
\* st.error); url is the value it returns.
upload_image(sub, img_type, outcome) ==
    IF outcome = "failed"
    THEN [url |-> None, objects |-> {}, message |-> "Image upload failed"]
    ELSE [url |-> PublicUrl(sub, img_type),
          objects |-> {[path |-> PublicUrl(sub, img_type),
                        public |-> (outcome = "public")]},
          message |-> IF outcome = "public" THEN "Image uploaded"
                      ELSE "Image uploaded but could not make public"]

UploadsSucceededEither(r) == Truthy(r.education_url) \/ Truthy(r.poster_url)

\* "if education_url and poster_url:"
UploadsSucceeded(r) == Truthy(r.education_url) /\ Truthy(r.poster_url)

AfterUploadsAlwaysSave(r) == "save_data"

AfterUploadsRetry(r) == IF UploadsSucceeded(r) THEN "save_data" ELSE "upload_education"

AfterUploads(r) == IF UploadsSucceeded(r) THEN "save_data" ELSE "upload_failed"

AfterPosterSkipDisplay(f) == "decide"

\* "if participation == "Yes" and display_competition_photo:"
AfterPoster(f) ==
    IF f.participation = "Yes" /\ Truthy(f.display_competition_photo)
    THEN "upload_display_competition" ELSE "decide"

GotoStopOnFailure(r, pc) ==
    [r EXCEPT !.pc = IF pc = "decide" \/ ~UploadsSucceeded(r) THEN AfterUploads(r) ELSE pc]

Goto(r, pc) == [r EXCEPT !.pc = IF pc = "decide" THEN AfterUploads(r) ELSE pc]

\* Image.open of both required photos, then upload_image(..., "education").
UploadEducation(s, U) ==
    /\ session[s].pc = "upload_education"
    /\ LET r == session[s]
       IN IF Corrupt \in {r.form.education_photo, r.form.poster_photo}
          THEN /\ Set(s, [r EXCEPT !.pc = "error"])
               /\ UNCHANGED bucket
          ELSE \E outcome \in U :
                  LET up == upload_image(r.sub, "education", outcome)
                  IN /\ bucket' = bucket \cup up.objects
                     /\ Set(s, [Did(r, "upload_education") EXCEPT
                                  !.education_url = up.url, !.pc = "upload_poster"])
    /\ UNCHANGED <<Sheets, nsub>>

UploadPoster(s, U) ==
    /\ session[s].pc = "upload_poster"
    /\ \E outcome \in U :
          LET r == session[s]
              up == upload_image(r.sub, "poster", outcome)
          IN /\ bucket' = bucket \cup up.objects
             /\ Set(s, Goto([Did(r, "upload_poster") EXCEPT !.poster_url = up.url],
                            AfterPoster(r.form)))
    /\ UNCHANGED <<Sheets, nsub>>

UploadDisplay(s, U) ==
    /\ session[s].pc = "upload_display_competition"
    /\ LET r == session[s]
       IN IF r.form.display_competition_photo = Corrupt
          THEN /\ Set(s, [r EXCEPT !.pc = "error"])
               /\ UNCHANGED bucket
          ELSE \E outcome \in U :
                  LET up == upload_image(r.sub, "display_competition", outcome)
                  IN /\ bucket' = bucket \cup up.objects
                     /\ Set(s, Goto([Did(r, "upload_display_competition") EXCEPT
                                       !.display_url = up.url], "decide"))
    /\ UNCHANGED <<Sheets, nsub>>

\* The dict built at lines 759-770.
data(r) ==
    [store_name |-> strip(store_name(r.form)),
     employee_name |-> strip(employee_name(r.form)),
     date |-> <<"date">>,
     education_photo_url |-> r.education_url,
     poster_photo_url |-> r.poster_url,
     participation_competition |-> <<r.form.participation>>,
     display_competition_photo_url |->
         IF r.form.participation = "Yes" THEN r.display_url ELSE <<>>,
     non_participation_reason |->
         IF r.form.participation = "No" THEN r.form.non_participation_reason ELSE <<>>,
     timestamp |-> <<"timestamp">>,
     status |-> <<"Submitted">>]

\* save_data's row_data, as the cells append_row writes.
row_data(d) ==
    [Store_Name |-> CellOf(d.store_name),
     Employee_Name |-> CellOf(d.employee_name),
     Date |-> CellOf(d.date),
     Education_Photo_URL |-> CellOf(d.education_photo_url),
     Poster_Photo_URL |-> CellOf(d.poster_photo_url),
     Participation_Competition |-> CellOf(d.participation_competition),
     Display_Competition_Photo_URL |-> CellOf(d.display_competition_photo_url),
     Non_Participation_Reason |-> CellOf(d.non_participation_reason),
     Timestamp |-> CellOf(d.timestamp),
     Status |-> CellOf(d.status)]

SaveData(s, R) ==
    /\ session[s].pc = "save_data"
    /\ \E raised \in R :
          LET r == Did(session[s], "save_data")
          IN IF raised
             THEN /\ Set(s, [r EXCEPT !.pc = "append_failed"])
                  /\ UNCHANGED main_worksheet
             ELSE /\ Set(s, [r EXCEPT !.pc = "appended"])
                  /\ main_worksheet' = append_row(main_worksheet, row_data(data(r)))
    /\ UNCHANGED <<store_worksheet, employee_worksheet, bucket, nsub>>

Terminal == {"invalid", "add_failed", "error", "upload_failed", "append_failed", "appended"}

\* The next run of the script in this session (st.rerun(), or the user
\* acting on the page again): the locals of the finished run are gone, the
\* handler of st.session_state is kept and its connection_status checked.
Rerun(s) ==
    /\ session[s].pc \in Terminal \cup {"stopped"}
    /\ nsub < MaxSubmissions
    /\ Set(s, [NewSession EXCEPT
                 !.sheets = session[s].sheets, !.storage = session[s].storage,
                 !.pc = StatusCheck(session[s].sheets, session[s].storage)])
    /\ UNCHANGED <<Stores, nsub>>

-----------------------------------------------------------------------------
Texts == {<<"a">>, <<"b", " ">>, <<" ">>}
Files == {Image, Corrupt}

\* What the one session of SpecFlow submits.
FlowEntries(stores, employees) ==
    FormsOver({st \in StoreChoices(stores, {<<"b", " ">>}) : TRUE},
              {em \in EmployeeChoices(employees, {<<"a">>}) : TRUE},
              {Image},
              {None} \cup Files,
              {pa \in ParticipationChoices({<<"a">>, <<"b", " ">>}, Files) :
                  pa.participation # "Select..."})

\* What the concurrent sessions of Spec submit.
Entries(stores, employees) ==
    FormsOver({st \in StoreChoices(stores, {<<"a">>, <<"b", " ">>}) :
                  st.selection # SelectStore},
              {[selection |-> NewEmployee, new |-> <<"a">>]},
              {Image},
              {Image},
              {[participation |-> "Yes", photo |-> Image, reason |-> <<>>]})

\* The entries of a specification of the given kind.
EntriesOf(kind, stores, employees) ==
    IF kind = "flow" THEN FlowEntries(stores, employees) ELSE Entries(stores, employees)

Step(s, kind, U, R, RI) ==
    \/ SetupConnections(s)
    \/ EnsureRowValues(s, RI)
    \/ EnsureGetAllValues(s, RI)
    \/ EnsureClear(s, RI)
    \/ EnsureAppendRow(s, RI)
    \/ SetupStorage(s)
    \/ LoadStores(s, R)
    \/ LoadEmployees(s, R)
    \/ /\ session[s].pc = "form"
       /\ nsub < MaxSubmissions
       /\ \E f \in EntriesOf(kind, session[s].stores, session[s].employees) :
             Submit(s, f)
    \/ Validate(s)
    \/ AddRead(s, "store", R)
    \/ AddAppend(s, "store", R)
    \/ AddRead(s, "employee", R)
    \/ AddAppend(s, "employee", R)
    \/ UploadEducation(s, U)
    \/ UploadPoster(s, U)
    \/ UploadDisplay(s, U)
    \/ SaveData(s, R)
    \/ Rerun(s)

Next == \E s \in Sessions : Step(s, "concurrent", {"public"}, {FALSE}, {FALSE})

Spec == Init /\ [][Next]_vars

NextFlow == Step("s1", "flow", UploadOutcomes, BOOLEAN, {FALSE})

SpecFlow == Init /\ [][NextFlow]_vars

\* The processing branch of one script run.
Processing(s, U, R) ==
    \/ AddRead(s, "store", R)
    \/ AddAppend(s, "store", R)
    \/ AddRead(s, "employee", R)
    \/ AddAppend(s, "employee", R)
    \/ UploadEducation(s, U)
    \/ UploadPoster(s, U)
    \/ UploadDisplay(s, U)
    \/ SaveData(s, R)

-----------------------------------------------------------------------------
(* add_store_to_sheet / add_employee_to_sheet called twice in sequence on  *)
(* a catalog sheet: session s1 makes the first call, s2 the second one      *)
(* after s1's has returned.                                                *)

\* Data rows of a catalog sheet at the first call.
MaxCatalogRows == 2

AddTexts == {<<"a">>, <<" ", "a">>, <<"a", " ">>}

SeqsUpTo(S, n) == UNION {[1..k -> S] : k \in 0..n}

CatalogContents(c) ==
    {<<HeaderRow({CatalogKey(c)})>> \o rows :
        rows \in SeqsUpTo({CatalogRow(c, <<"a">>), CatalogRow(c, <<"b">>)}, MaxCatalogRows)}

AddCaller(c, name, sub) ==
    [NewSession EXCEPT
        !.pc = "add_" \o c, !.sheets = TRUE, !.storage = TRUE, !.sub = sub,
        !.form = [BlankForm EXCEPT
                    !.store_selection = IF c = "store" THEN NewStore ELSE <<"b">>,
                    !.new_store = IF c = "store" THEN name ELSE <<>>,
                    !.employee_selection = IF c = "employee" THEN NewEmployee ELSE <<"b">>,
                    !.new_employee = IF c = "employee" THEN name ELSE <<>>,
                    !.education_photo = Image, !.poster_photo = Image,
                    !.participation = "No", !.non_participation_reason = <<"a">>]]

InitAdd ==
    \E c \in {"store", "employee"}, first \in AddTexts, second \in AddTexts :
       \E contents \in CatalogContents(c) :
          /\ main_worksheet = <<main_expected_headers>>
          /\ store_worksheet =
                IF c = "store" THEN contents
                ELSE <<store_expected_headers, CatalogRow("store", <<"b">>)>>
          /\ employee_worksheet =
                IF c = "employee" THEN contents
                ELSE <<employee_expected_headers, CatalogRow("employee", <<"b">>)>>
          /\ bucket = {}
          /\ nsub = MaxSubmissions
          /\ session = [s \in Sessions |->
                          IF s = "s1" THEN AddCaller(c, first, "1")
                          ELSE AddCaller(c, second, "2")]

InAdd(r) == r.pc \in {"add_store", "append_store", "add_employee", "append_employee"}

NextAdd ==
    \E c \in {"store", "employee"} :
       \/ AddRead("s1", c, {FALSE})
       \/ AddAppend("s1", c, {FALSE})
       \/ /\ ~InAdd(session["s1"])
          /\ session["s1"].ops # <<>>
          /\ session["s2"].ops = <<>>
          /\ AddRead("s2", c, {FALSE})
       \/ AddAppend("s2", c, {FALSE})

SpecAdd == InitAdd /\ [][NextAdd]_vars

-----------------------------------------------------------------------------
(* The validation block applied to every state of the form's widgets.      *)

InitValidate ==
    /\ main_worksheet = <<main_expected_headers>>
    /\ store_worksheet = <<store_expected_headers, CatalogRow("store", <<"a">>)>>
    /\ employee_worksheet = <<employee_expected_headers, CatalogRow("employee", <<"a">>)>>
    /\ bucket = {}
    /\ nsub = 1
    /\ \E f \in FormStates(<<<<"a">>>>, <<<<"a">>>>, Texts, Files) :
          session = [s \in Sessions |->
                        IF s = "s1"
                        THEN [NewSession EXCEPT !.pc = "validating", !.sheets = TRUE,
                                                !.storage = TRUE, !.sub = "1", !.form = f]
                        ELSE NewSession]

NextValidate == Validate("s1")

SpecValidate == InitValidate /\ [][NextValidate]_vars

-----------------------------------------------------------------------------
(* One submission, of any form state, from the form to its outcome. The    *)
(* processing branch of a script run is straight-line code in which every  *)
(* call returns or raises, so a run that is in it takes its next step.     *)

InitSubmission ==
    /\ main_worksheet = <<main_expected_headers>>
    /\ store_worksheet = <<store_expected_headers, CatalogRow("store", <<"a">>)>>
    /\ employee_worksheet = <<employee_expected_headers, CatalogRow("employee", <<"a">>)>>
    /\ bucket = {}
    /\ nsub = 0
    /\ session = [s \in Sessions |->
                    IF s = "s1"
                    THEN [NewSession EXCEPT !.pc = "form", !.sheets = TRUE,
                                            !.storage = TRUE,
                                            !.stores = <<<<"a">>>>,
                                            !.employees = <<<<"a">>>>]
                    ELSE NewSession]

NextSubmission ==
    \/ \E f \in FormStates(session["s1"].stores, session["s1"].employees, Texts, Files) :
          Submit("s1", f)
    \/ Validate("s1")
    \/ Processing("s1", UploadOutcomes, BOOLEAN)

SpecSubmission ==
    InitSubmission /\ [][NextSubmission]_vars
    /\ WF_vars(Processing("s1", UploadOutcomes, BOOLEAN))

-----------------------------------------------------------------------------
(* upload_image's path: the folder names it makes of the store and the     *)
(* employee name it is given.                                              *)

isalnum(c) == c \in {"a", "1"}

KeptWithoutUnderscore(c) == isalnum(c) \/ c \in {" ", "-"}

\* "c.isalnum() or c in (' ', '-', '_')"
Kept(c) == isalnum(c) \/ c \in {" ", "-", "_"}

\* .replace(' ', '_')
replace_spaces(t) == [i \in DOMAIN t |-> IF t[i] = " " THEN "_" ELSE t[i]]

\* clean_store / clean_employee
clean(t) == replace_spaces(strip(SelectSeq(t, Kept)))

\* path, the date and the time of day left out, sub standing for unique_id.
path(store, employee, img_type, sub) ==
    <<"gramedia-display", clean(store), clean(employee), img_type, sub>>

MaxNameLen == 3

NameAlphabet == {"a", "1", " ", "-", "_", "/"}

EmployeeTexts == {<<"a">>, <<" ", "a", "/", " ", "1", "_">>, <<"-", " ">>}

InitSanitize ==
    /\ main_worksheet = <<main_expected_headers>>
    /\ store_worksheet = <<store_expected_headers>>
    /\ employee_worksheet = <<employee_expected_headers>>
    /\ bucket = {}
    /\ nsub = 1
    /\ \E store \in SeqsUpTo(NameAlphabet, MaxNameLen), employee \in EmployeeTexts :
          session = [s \in Sessions |->
                        IF s = "s1"
                        THEN [NewSession EXCEPT
                                !.pc = "upload_education", !.sheets = TRUE,
                                !.storage = TRUE, !.sub = "1",
                                !.form = [BlankForm EXCEPT
                                            !.store_selection = NewStore,
                                            !.new_store = store,
                                            !.employee_selection = NewEmployee,
                                            !.new_employee = employee,
                                            !.education_photo = Image,
                                            !.poster_photo = Image,
                                            !.participation = "No",
                                            !.non_participation_reason = <<"a">>]]
                        ELSE NewSession]

\* upload_image(education_img, store_name, employee_name, "education"), as
\* the object it stores under the path it builds.
UploadUnderPath(s) ==
    /\ session[s].pc = "upload_education"
    /\ LET r == session[s]
       IN /\ bucket' = bucket \cup
                {[path |-> path(store_name(r.form), employee_name(r.form),
                                "education", r.sub),
                  public |-> TRUE]}
          /\ Set(s, [Did(r, "upload_education") EXCEPT !.pc = "upload_poster"])
    /\ UNCHANGED <<Sheets, nsub>>

NextSanitize == UploadUnderPath("s1")

SpecSanitize == InitSanitize /\ [][NextSanitize]_vars

-----------------------------------------------------------------------------
(* upload_image's resizing of the image it is given.                       *)

\* The 1920 of "if image.width > 1920 or image.height > 1920".
MaxDimension == 1920

\* int(a / b) of positive integers.
int_quotient(a, b) == a \div b

\* (new_width, new_height); the size itself when no resize is made.
new_size(width, height) ==
    IF width > MaxDimension \/ height > MaxDimension
    THEN IF width > height
         THEN <<MaxDimension, int_quotient(MaxDimension * height, width)>>
         ELSE <<int_quotient(MaxDimension * width, height), MaxDimension>>
    ELSE <<width, height>>

\* Image.resize raises for a size with a dimension below 1, and no JPEG can
\* be written of an empty image: upload_image's except returns None.
resize_raises(size) == size[1] < 1 \/ size[2] < 1

\* How far around 1, around 1920 and around twice 1920 the dimensions go.
Margin == 2

Dimensions ==
    (1..Margin)
    \cup ((MaxDimension - Margin)..(MaxDimension + Margin))
    \cup ((2 * MaxDimension - Margin)..(2 * MaxDimension + Margin))
    \cup {1080, 2560, 3000, 5000}

PhotoOf(width, height) == <<"image", width, height>>

InitResize ==
    /\ main_worksheet = <<main_expected_headers>>
    /\ store_worksheet = <<store_expected_headers, CatalogRow("store", <<"a">>)>>
    /\ employee_worksheet = <<employee_expected_headers, CatalogRow("employee", <<"a">>)>>
    /\ bucket = {}
    /\ nsub = 1
    /\ \E width \in Dimensions, height \in Dimensions :
          session = [s \in Sessions |->
                        IF s = "s1"
                        THEN [NewSession EXCEPT
                                !.pc = "upload_education", !.sheets = TRUE,
                                !.storage = TRUE, !.sub = "1",
                                !.form = [BlankForm EXCEPT
                                            !.store_selection = <<"a">>,
                                            !.employee_selection = <<"a">>,
                                            !.education_photo = PhotoOf(width, height),
                                            !.poster_photo = Image,
                                            !.participation = "No",
                                            !.non_participation_reason = <<"a">>]]
                        ELSE NewSession]

\* upload_image(education_img, ..., "education"), as the size of the image
\* it stores; the calls to the bucket do not raise.
UploadResized(s) ==
    /\ session[s].pc = "upload_education"
    /\ LET r == session[s]
           size == new_size(r.form.education_photo[2], r.form.education_photo[3])
       IN IF resize_raises(size)
          THEN /\ bucket' = bucket
               /\ Set(s, [Did(r, "upload_education") EXCEPT
                            !.education_url = None, !.pc = "upload_poster"])
          ELSE /\ bucket' = bucket \cup
                     {[path |-> PublicUrl(r.sub, "education"), public |-> TRUE,
                       size |-> size]}
               /\ Set(s, [Did(r, "upload_education") EXCEPT
                            !.education_url = PublicUrl(r.sub, "education"),
                            !.pc = "upload_poster"])
    /\ UNCHANGED <<Sheets, nsub>>

NextResize == UploadResized("s1")

SpecResize == InitResize /\ [][NextResize]_vars

-----------------------------------------------------------------------------
(* Vocabulary of the properties.                                           *)

DataRow(row) == row # main_expected_headers

DataRows(sheet) == SelectSeq(sheet, DataRow)

\* The rows of the main sheet that carry a photo of submission sub.
RowsOf(sub) ==
    {i \in DOMAIN main_worksheet :
        \/ main_worksheet[i].Education_Photo_URL = PublicUrl(sub, "education")
        \/ main_worksheet[i].Poster_Photo_URL = PublicUrl(sub, "poster")}

ObjectsOf(sub) == {o \in bucket : o.path[2] = sub}

Stored(url) == \E o \in bucket : o.path = url

Count(name, sheet, key) ==
    Cardinality({i \in DOMAIN sheet : sheet[i][key] = name})

IsPrefix(x, y) == Len(x) <= Len(y) /\ SubSeq(y, 1, Len(x)) = x

\* The seven validation rules, as the set of those a form state violates.
ViolatedRules(f) ==
    {k \in 1..7 :
        \/ k = 1 /\ strip(store_name(f)) = <<>>
        \/ k = 2 /\ strip(employee_name(f)) = <<>>
        \/ k = 3 /\ f.education_photo = None
        \/ k = 4 /\ f.poster_photo = None
        \/ k = 5 /\ f.participation \notin {"Yes", "No"}
        \/ k = 6 /\ f.participation = "Yes" /\ f.display_competition_photo = None
        \/ k = 7 /\ f.participation = "No" /\ strip(f.non_participation_reason) = <<>>}

RuleMessage ==
    <<"Store name is required", "Employee name is required",
      "Education photo is required", "Poster photo is required",
      "Please select participation status",
      "Display competition photo is required when participating",
      "Reason is required when not participating">>

Phase(pc) ==
    CASE pc = "form" -> "Draft"
      [] pc \in {"validating", "add_store", "append_store", "add_employee",
                 "append_employee"} -> "Validating"
      [] pc = "invalid" -> "Invalid"
      [] pc = "add_failed" -> "CatalogAddFailed"
      [] pc \in {"upload_education", "upload_poster", "upload_display_competition"}
            -> "Uploading"
      [] pc = "save_data" -> "Uploaded"
      [] pc = "appended" -> "RecordAppended"
      [] pc \in {"upload_failed", "error"} -> "UploadFailed"
      [] pc = "append_failed" -> "AppendFailed"
      [] OTHER -> "NoSubmission"

SpecifiedEdges ==
    {<<"NoSubmission", "Draft">>, <<"Draft", "Validating">>,
     <<"Validating", "Invalid">>, <<"Validating", "Uploading">>,
     <<"Uploading", "Uploaded">>, <<"Uploading", "UploadFailed">>,
     <<"Uploaded", "RecordAppended">>, <<"Uploaded", "AppendFailed">>,
     <<"Invalid", "NoSubmission">>, <<"RecordAppended", "NoSubmission">>,
     <<"UploadFailed", "NoSubmission">>, <<"AppendFailed", "NoSubmission">>}

AmendedEdges ==
    SpecifiedEdges
    \cup {<<"Validating", "CatalogAddFailed">>, <<"CatalogAddFailed", "NoSubmission">>}

PhaseStepsWithin(edges) ==
    \A s \in Sessions :
       Phase(session[s].pc) # Phase(session'[s].pc)
          => <<Phase(session[s].pc), Phase(session'[s].pc)>> \in edges

-----------------------------------------------------------------------------
(* C1: every row appended by a submission has exactly one of               *)
(* Display_Competition_Photo_URL and Non_Participation_Reason non-empty:   *)
(* the display URL for participation = Yes, the reason for participation = *)
(* No.                                                                     *)
C1_DisplayUrlXorReason ==
    \A i \in DOMAIN main_worksheet :
       LET row == main_worksheet[i]
       IN DataRow(row) =>
             /\ row.Participation_Competition \in {<<"Yes">>, <<"No">>}
             /\ row.Participation_Competition = <<"Yes">> =>
                   /\ row.Display_Competition_Photo_URL # <<>>
                   /\ row.Non_Participation_Reason = <<>>
             /\ row.Participation_Competition = <<"No">> =>
                   /\ row.Non_Participation_Reason # <<>>
                   /\ row.Display_Competition_Photo_URL = <<>>

(* C2: when the education or the poster upload of a submission returned no *)
(* reference, that submission appends no row and never gets to save_data,  *)
(* whatever the other uploads did; every reference an upload returned      *)
(* names an object of the bucket, and no step removes a bucket object.     *)
C2_NoRowAfterFailedRequiredUpload ==
    /\ [](\A s \in Sessions :
             LET r == session[s]
             IN /\ (r.education_url = None \/ r.poster_url = None) =>
                      /\ RowsOf(r.sub) = {}
                      /\ r.pc \notin {"save_data", "appended", "append_failed"}
                      /\ "save_data" \notin Range(r.ops)
                /\ \A url \in {r.education_url, r.poster_url, r.display_url} :
                      Truthy(url) => Stored(url))
    /\ [][bucket \subseteq bucket']_vars

C2_Witness ==
    \E s \in Sessions :
       /\ session[s].pc = "upload_failed"
       /\ Truthy(session[s].education_url)
       /\ session[s].poster_url = None
       /\ Stored(session[s].education_url)
       /\ RowsOf(session[s].sub) = {}

(* C3: a submitted form that violates a validation rule makes no handler   *)
(* call: nothing is uploaded, no catalog name is added, no row appended.   *)
C3_InvalidFormHasNoEffect ==
    \A s \in Sessions :
       LET r == session[s]
       IN ViolatedRules(r.form) # {} =>
             /\ r.ops = <<>>
             /\ ObjectsOf(r.sub) = {}
             /\ RowsOf(r.sub) = {}
             /\ Phase(r.pc) \in {"NoSubmission", "Draft", "Validating", "Invalid"}
             /\ r.pc \notin {"add_store", "append_store", "add_employee", "append_employee"}

C3_Witness ==
    \E s \in Sessions :
       /\ session[s].pc = "invalid"
       /\ session[s].form.poster_photo = None
       /\ "Poster photo is required" \in Range(session[s].errors)
       /\ bucket # {}

(* C4: after validation the error list holds exactly one entry for each    *)
(* violated rule of the seven and none for a satisfied rule, and the       *)
(* submission goes on to the upload branch exactly when the list is empty. *)
C4_ValidationCollectsEveryError ==
    \A s \in Sessions :
       LET r == session[s]
       IN (r.sub # "0" /\ r.pc # "validating") =>
             /\ \A k \in 1..7 :
                   RuleMessage[k] \in Range(r.errors) <=> k \in ViolatedRules(r.form)
             /\ Len(r.errors) = Cardinality(ViolatedRules(r.form))
             /\ r.pc = "invalid" <=> r.errors # <<>>
             /\ r.pc # "invalid" => r.pc \in {"add_store", "add_employee", "upload_education"}

C4_Witness ==
    \E s \in Sessions :
       /\ session[s].pc = "invalid"
       /\ Len(session[s].errors) = 5
       /\ session[s].form.new_store = <<" ">>

(* C5 as stated: after add_store_to_sheet (or add_employee_to_sheet) was    *)
(* called twice in sequence with names equal after trimming, whatever the  *)
(* catalog was, the sheet holds the trimmed name in exactly one row and    *)
(* both calls returned True.                                               *)
AddReturned(s, c) ==
    /\ "add_" \o c \in Range(session[s].ops)
    /\ session[s].pc \notin {"add_" \o c, "append_" \o c}

AddReturnedTrue(s, c) ==
    AddReturned(s, c) /\ session[s].pc = AfterAdd(c, session[s].form)

RowsAppendedBy(s, c) == IF "appended_" \o c \in Range(session[s].ops) THEN 1 ELSE 0

C5_AddTwiceFromAnyCatalog ==
    \A c \in {"store", "employee"} :
       (AddReturned("s1", c) /\ AddReturned("s2", c)) =>
          /\ AddReturnedTrue("s1", c) /\ AddReturnedTrue("s2", c)
          /\ Count(strip(TypedName(c, session["s1"].form)), CatalogSheet(c), CatalogKey(c)) = 1

(* C5 amended: ... starting from a catalog sheet that holds the trimmed    *)
(* name in at most one row, the sheet holds it in exactly one row after    *)
(* the two calls, and both calls returned True.                            *)
C5_AddTwiceIsIdempotent ==
    \A c \in {"store", "employee"} :
       (AddReturned("s1", c) /\ AddReturned("s2", c)) =>
          LET name == strip(TypedName(c, session["s1"].form))
              after == Count(name, CatalogSheet(c), CatalogKey(c))
              before == after - RowsAppendedBy("s1", c) - RowsAppendedBy("s2", c)
          IN /\ AddReturnedTrue("s1", c) /\ AddReturnedTrue("s2", c)
             /\ before <= 1 => after = 1
             /\ before >= 2 => after = before

C5_Witness ==
    /\ AddReturnedTrue("s1", "store") /\ AddReturnedTrue("s2", "store")
    /\ session["s1"].form.new_store = <<"a", " ">>
    /\ session["s2"].form.new_store = <<" ", "a">>
    /\ RowsAppendedBy("s1", "store") = 1
    /\ RowsAppendedBy("s2", "store") = 0
    /\ Count(<<"a">>, store_worksheet, "Store_Name") = 1

(* C6: the add is a read followed by an append.  Whenever a session        *)
(* appends a name its read did not find while the sheet by now records     *)
(* that name (another add appended it in between), the append still        *)
(* happens: the sheet then holds the name in at least two rows and the add *)
(* reports success.                                                        *)
C6_StaleReadAppendsDuplicate ==
    [][\A s \in Sessions, c \in {"store", "employee"} :
          LET r == session[s]
              name == strip(TypedName(c, r.form))
          IN (/\ r.pc = "append_" \o c
              /\ session'[s].pc # r.pc
              /\ NameRecorded(get_all_records(CatalogSheet(c)), CatalogKey(c), name))
             => /\ session'[s].pc = AfterAdd(c, r.form)
                /\ Count(name, CatalogSheet(c)', CatalogKey(c)) >= 2]_vars

C6_Witness ==
    \E s, t \in Sessions :
       /\ s # t
       /\ AddReturnedTrue(s, "store") /\ AddReturnedTrue(t, "store")
       /\ RowsAppendedBy(s, "store") = 1 /\ RowsAppendedBy(t, "store") = 1
       /\ strip(session[s].form.new_store) = <<"a">>
       /\ strip(session[t].form.new_store) = <<"a">>
       /\ store_worksheet =
             <<store_expected_headers, CatalogRow("store", <<"a">>),
               CatalogRow("store", <<"a">>)>>

(* C7: for every reachable content of the catalog sheets, and in every     *)
(* listing a session has loaded, the list get_stores_and_employees builds  *)
(* is strictly increasing (sorted, no name twice) and holds no empty name. *)
StrictlySorted(l) ==
    /\ \A i \in 1..(Len(l) - 1) : StrLess(l[i], l[i + 1])
    /\ \A i \in 1..Len(l) : l[i] # <<>>

C7_ListingSortedDeduplicated ==
    /\ StrictlySorted(CatalogNames(store_worksheet, "Store_Name"))
    /\ StrictlySorted(CatalogNames(employee_worksheet, "Employee_Name"))
    /\ \A s \in Sessions :
          StrictlySorted(session[s].stores) /\ StrictlySorted(session[s].employees)

C7_Witness ==
    /\ Count(<<"a">>, store_worksheet, "Store_Name") = 2
    /\ CatalogNames(store_worksheet, "Store_Name") = <<<<"a">>>>

(* C8: a row appended to the main sheet is never modified or removed: in   *)
(* every step the data rows of the sheet stay, in order, at the front of   *)
(* the data rows after the step.                                           *)
C8_MainSheetAppendOnly ==
    [][IsPrefix(DataRows(main_worksheet), DataRows(main_worksheet'))]_vars

\* What each phase of a submission has done to the bucket and the main sheet.
PhaseOutcomes ==
    \A s \in Sessions :
       LET r == session[s]
           phase == Phase(r.pc)
       IN /\ phase \in {"Validating", "Invalid", "CatalogAddFailed"} =>
                ObjectsOf(r.sub) = {} /\ RowsOf(r.sub) = {}
          /\ phase \in {"Uploading", "Uploaded", "UploadFailed", "AppendFailed"} =>
                RowsOf(r.sub) = {}
          /\ phase \in {"Uploaded", "AppendFailed", "RecordAppended"} =>
                /\ Truthy(r.education_url) /\ Stored(r.education_url)
                /\ Truthy(r.poster_url) /\ Stored(r.poster_url)
          /\ phase = "RecordAppended" => RowsOf(r.sub) # {}
          /\ phase = "Invalid" => r.errors # <<>>

\* A submission whose uploads have begun reaches one of the three outcomes.
RunsToOutcome ==
    \A s \in Sessions :
       Phase(session[s].pc) \in {"Uploading", "Uploaded"}
          ~> Phase(session[s].pc) \in {"RecordAppended", "UploadFailed", "AppendFailed"}

(* C9 as stated: every submission moves only along Draft -> Validating ->  *)
(* Invalid and Draft -> Validating -> Uploading -> (Uploaded ->            *)
(* RecordAppended | Uploaded -> AppendFailed | UploadFailed), the four     *)
(* terminal outcomes being the only ends, and once uploading it reaches    *)
(* RecordAppended, UploadFailed or AppendFailed.                           *)
C9_SpecifiedStateMachine ==
    /\ [][PhaseStepsWithin(SpecifiedEdges)]_vars
    /\ []PhaseOutcomes
    /\ RunsToOutcome

(* C9, amended: the state machine has a fifth terminal outcome,            *)
(* CatalogAddFailed, entered from Validating when add_store_to_sheet or    *)
(* add_employee_to_sheet returns False: nothing was uploaded and no row is *)
(* appended. With that edge added every submission moves only along the    *)
(* specified edges; Invalid, CatalogAddFailed and UploadFailed leave no    *)
(* row, AppendFailed leaves the photos stored and no row, RecordAppended   *)
(* leaves the row; and once uploading the run reaches RecordAppended,      *)
(* UploadFailed or AppendFailed.                                           *)
C9_SubmissionStateMachine ==
    /\ [][PhaseStepsWithin(AmendedEdges)]_vars
    /\ []PhaseOutcomes
    /\ RunsToOutcome

C9_Witness ==
    \E s \in Sessions :
       /\ session[s].pc = "add_failed"
       /\ session[s].form.store_selection = NewStore
       /\ ViolatedRules(session[s].form) = {}
       /\ ObjectsOf(session[s].sub) = {}
       /\ RowsOf(session[s].sub) = {}

\* The uploads a submission with form f makes.
UploadsOf(f) ==
    {"upload_education", "upload_poster"}
    \cup (IF f.participation = "Yes" THEN {"upload_display_competition"} ELSE {})

UploadCalls == {"upload_education", "upload_poster", "upload_display_competition"}

IsUploadCall(op) == op \in UploadCalls

(* C10: in a submission that gets to the row append (save_data), every     *)
(* photo upload of that submission (education, poster and, when            *)
(* participation = Yes, display_competition) has returned before the       *)
(* append is called, the append is the last call of the submission, and    *)
(* from the append on no step adds an object of that submission to the     *)
(* bucket. A row of a submission is in the sheet only after its append.    *)
C10_AppendAfterAllUploads ==
    /\ [](\A s \in Sessions :
             LET r == session[s]
             IN /\ \A i \in DOMAIN r.ops :
                      r.ops[i] = "save_data" =>
                         /\ i = Len(r.ops)
                         /\ UploadsOf(r.form) \subseteq Range(SubSeq(r.ops, 1, i - 1))
                /\ r.pc \in {"save_data", "appended", "append_failed"} =>
                      UploadsOf(r.form) \subseteq Range(r.ops)
                /\ RowsOf(r.sub) # {} =>
                      r.pc = "appended" /\ r.ops[Len(r.ops)] = "save_data")
    /\ [][\A s \in Sessions :
             /\ session[s].pc \in {"save_data", "appended", "append_failed"}
             /\ session'[s].sub = session[s].sub
             => /\ ObjectsOf(session[s].sub)' = ObjectsOf(session[s].sub)
                /\ SelectSeq(session'[s].ops, IsUploadCall)
                      = SelectSeq(session[s].ops, IsUploadCall)]_vars

C10_Witness ==
    \E s \in Sessions :
       /\ session[s].pc = "appended"
       /\ session[s].form.participation = "Yes"
       /\ RowsOf(session[s].sub) # {}
       /\ UploadCalls \subseteq Range(session[s].ops)
       /\ session[s].ops[Len(session[s].ops)] = "save_data"

\* The upload a run is about to make.
PendingUpload(r) ==
    CASE r.pc = "upload_education" -> "education"
      [] r.pc = "upload_poster" -> "poster"
      [] r.pc = "upload_display_competition" -> "display_competition"
      [] OTHER -> "none"

(* C11: at every upload a run makes, what upload_image returns to its      *)
(* caller when the bytes are stored but make_public fails is the public    *)
(* reference, and it differs both from what the call returns when          *)
(* make_public succeeds and from what it returns on failure, so that the   *)
(* caller can tell the three outcomes apart.                               *)
C11_PartialSuccessDistinguishable ==
    \A s \in Sessions :
       LET r == session[s]
           returned(outcome) == upload_image(r.sub, PendingUpload(r), outcome).url
       IN PendingUpload(r) # "none" =>
             /\ returned("private") = PublicUrl(r.sub, PendingUpload(r))
             /\ returned("private") # returned("failed")
             /\ returned("private") # returned("public")

(* C12: sanitizing is idempotent: the store and the employee folder name   *)
(* of every stored path, which upload_image made by sanitizing the names   *)
(* it was given, are left as they are by sanitizing them again; they hold  *)
(* only alphanumerics, hyphens and underscores.                            *)
C12_SanitizeIdempotent ==
    \A o \in bucket :
       \A i \in {2, 3} :
          /\ clean(o.path[i]) = o.path[i]
          /\ \A k \in DOMAIN o.path[i] : Kept(o.path[i][k]) /\ o.path[i][k] # " "

C12_Witness ==
    /\ session["s1"].form.new_store = <<" ", "a", " ">>
    /\ \E o \in bucket : o.path[2] = <<"a">> /\ o.path[2] # session["s1"].form.new_store

Larger(size) == IF size[1] > size[2] THEN size[1] ELSE size[2]
Smaller(size) == IF size[1] > size[2] THEN size[2] ELSE size[1]

(* C13: for every image of positive width and height of which one exceeds  *)
(* 1920, upload_image stores an image whose larger dimension is 1920 and   *)
(* whose smaller dimension is within one pixel of 1920 * smaller / larger  *)
(* of the input.                                                           *)
C13_ResizePreservesAspect ==
    \A s \in Sessions :
       LET r == session[s]
           input == <<r.form.education_photo[2], r.form.education_photo[3]>>
       IN /\ "upload_education" \in Range(r.ops)
          /\ Larger(input) > MaxDimension
          => \E o \in bucket :
                /\ o.path = PublicUrl(r.sub, "education")
                /\ Larger(o.size) = MaxDimension
                /\ Smaller(o.size) * Larger(input) - MaxDimension * Smaller(input)
                      \in (0 - Larger(input))..Larger(input)

\* The handler of the session has been constructed.
Initialised(r) ==
    r.pc \notin {"new", "ensure_row_values", "ensure_get_all_values", "ensure_clear",
                 "ensure_append_row", "setup_storage"}

(* C14: a session whose handler initialisation did not establish both the *)
(* sheets and the storage connection stays stopped: it makes no catalog    *)
(* add, no upload and no row append, in any later run its                  *)
(* connection_status is what the initialisation left, the initialisation   *)
(* is not run again, and nothing it does changes a sheet or the bucket.    *)
C14_FailedInitialisationIsFatal ==
    /\ [](\A s \in Sessions :
             LET r == session[s]
             IN Initialised(r) /\ ~(r.sheets /\ r.storage) =>
                   /\ r.pc = "stopped"
                   /\ r.ops = <<>>
                   /\ r.sub = NewSession.sub)
    /\ [][\A s \in Sessions :
             session[s].pc = "stopped" =>
                /\ session'[s].pc = "stopped"
                /\ session'[s].sheets = session[s].sheets
                /\ session'[s].storage = session[s].storage
                /\ session'[s] # session[s] => UNCHANGED <<Stores, nsub>>]_vars

\* A later run of a session whose sheets are connected and whose storage
\* is not: ens is back at its first value.
C14_Witness ==
    \E s \in Sessions :
       /\ session[s].pc = "stopped"
       /\ session[s].sheets /\ ~session[s].storage
       /\ session[s].ens = "main"
       /\ main_worksheet = <<main_expected_headers>>

ImageTypes == {"education", "poster", "display_competition"}

(* C15: nothing is retried: in one submission each handler call (the       *)
(* catalog add of the store, that of the employee, the upload of each      *)
(* role, the row append) is made at most once whatever its result, so no   *)
(* submission has more than one row in the main sheet or more than one     *)
(* object per role in the bucket.                                          *)
C15_NothingIsRetried ==
    /\ \A s \in Sessions :
          \A i, j \in DOMAIN session[s].ops :
             session[s].ops[i] = session[s].ops[j] => i = j
    /\ \A sub \in Range(SubNames) :
          /\ Cardinality(RowsOf(sub)) <= 1
          /\ \A img_type \in ImageTypes :
                Cardinality({o \in bucket : o.path = PublicUrl(sub, img_type)}) <= 1

\* A submission ended after a failed poster upload and a later one was made.
C15_Witness ==
    \E s \in Sessions :
       /\ session[s].pc = "upload_failed"
       /\ session[s].poster_url = None
       /\ session[s].sub = SubNames[2]
       /\ Cardinality(RowsOf(SubNames[1])) = 1
       /\ Cardinality(ObjectsOf(SubNames[1])) = 3

\* The display_competition upload of the run is being made or has been made.
DisplayAttempted(r) ==
    r.pc = "upload_display_competition" \/ "upload_display_competition" \in Range(r.ops)

AppendedRow == main_worksheet'[Len(main_worksheet')]

(* C17: whenever a submission appends its row, the store name of the row   *)
(* is at that moment in a row of the store catalog sheet and its employee  *)
(* name in a row of the employee catalog sheet.                            *)
C17_AppendedNamesAreCatalogued ==
    [][\A s \in Sessions :
          session[s].pc = "save_data" /\ session'[s].pc = "appended" =>
             /\ Count(AppendedRow.Store_Name, store_worksheet, "Store_Name") >= 1
             /\ Count(AppendedRow.Employee_Name, employee_worksheet, "Employee_Name") >= 1]_vars

HandlerCallsAfterAdds ==
    {"upload_education", "upload_poster", "upload_display_competition", "save_data"}

(* C18: when the catalog add of a validated submission on the 'new store'  *)
(* or 'new employee' path reports failure, the run stops: it has made and  *)
(* makes no upload and no row append, the bucket holds no object and the   *)
(* main sheet no row of that submission, and the session's next step is a  *)
(* new run of the script.                                                  *)
C18_FailedCatalogAddStopsSubmission ==
    /\ [](\A s \in Sessions :
             LET r == session[s]
             IN r.pc = "add_failed" =>
                   /\ ViolatedRules(r.form) = {}
                   /\ r.form.store_selection = NewStore
                      \/ r.form.employee_selection = NewEmployee
                   /\ Range(r.ops) \cap HandlerCallsAfterAdds = {}
                   /\ ObjectsOf(r.sub) = {}
                   /\ RowsOf(r.sub) = {})
    /\ [][\A s \in Sessions :
             session[s].pc = "add_failed" /\ session'[s] # session[s] =>
                /\ session'[s].pc = "load_stores"
                /\ session'[s].ops = <<>>
                /\ UNCHANGED <<Stores, nsub>>]_vars
    /\ [][\A s \in Sessions :
             /\ session[s].pc \in {"add_store", "append_store", "add_employee",
                                   "append_employee"}
             /\ session'[s].pc \in {"add_employee", "upload_education"}
             => \E c \in {"store", "employee"} :
                   /\ session[s].pc \in {"add_" \o c, "append_" \o c}
                   /\ NameRecorded(get_all_records(CatalogSheet(c)'), CatalogKey(c),
                                   TypedName(c, session[s].form))]_vars

\* The add of the employee failed after the add of the store had appended.
C18_Witness ==
    \E s \in Sessions :
       /\ session[s].pc = "add_failed"
       /\ session[s].ops[Len(session[s].ops)] = "add_employee"
       /\ "appended_store" \in Range(session[s].ops)
       /\ ObjectsOf(session[s].sub) = {}
       /\ RowsOf(session[s].sub) = {}

====
